---- MODULE Spec2Model ----
(***************************************************************************)
(* A model of go-mcprotocol: the 3E frame encoder (station), the response  *)
(* parsers (parser_3E, parser_1E) and the TCP session client (client3E).   *)
(*                                                                         *)
(* Hex text is a string, a byte is an integer in 0..255, a []byte is a      *)
(* sequence of bytes.  A Go slice x[a:b] is written SubSeq(x, a+1, b).     *)
(***************************************************************************)
EXTENDS Integers, Sequences, FiniteSets, TLC

VARIABLES
    call,       \* station: the arguments of the builder call under study
    result,     \* station: what the builder call produced
    resp,       \* parser: the raw response buffer handed to Process
    parsed,     \* parser: what Process returned
    client,     \* session: whether New3EClient has returned a client
    conn,       \* session: c.conn, the socket the client holds (0 = none)
    sockets,    \* session: every socket dialed so far, "open" or "closed"
    last,       \* session: the last public call and what it returned
    callers,    \* callers: each caller's call in progress and its position
    wire,       \* callers: the connection, requests and responses under way
    log         \* callers: the socket writes and reads done, in order

stationVars == <<call, result>>
parserVars  == <<resp, parsed>>
clientVars  == <<client, conn, sockets, last>>
callerVars  == <<callers, wire, log>>
vars        == <<call, result, resp, parsed, client, conn, sockets, last,
                 callers, wire, log>>

(***************************************************************************)
(* Bounds of the model.                                                    *)
(***************************************************************************)
MaxDataLen  == 4    \* longest enumerated writeData, in bytes
MaxShortLen == 3    \* longest response enumerated over every sample byte
MaxRespLen  == 24   \* longest patterned response handed to a parser
MaxDials    == 3    \* sockets one session dials at most

(***************************************************************************)
(* fmt.Sprintf("%X", ...), encoding/hex and encoding/binary.               *)
(***************************************************************************)
HexDigits == <<"0", "1", "2", "3", "4", "5", "6", "7",
               "8", "9", "A", "B", "C", "D", "E", "F">>

\* fmt.Sprintf("%X", b) for a []byte b: two upper-case digits per byte.
RECURSIVE HexOfRange(_, _, _)
HexOfRange(bs, lo, hi) ==
    IF lo > hi THEN ""
    ELSE IF lo = hi
         THEN HexDigits[(bs[lo] \div 16) + 1] \o HexDigits[(bs[lo] % 16) + 1]
         ELSE LET mid == (lo + hi) \div 2
              IN  HexOfRange(bs, lo, mid) \o HexOfRange(bs, mid + 1, hi)

HexOfBytes(bs) == HexOfRange(bs, 1, Cardinality(DOMAIN bs))

\* fmt.Sprintf("%X", b) for a single byte b: an integer in base 16, not padded.
HexOfByte(b) ==
    IF b < 16 THEN HexDigits[b + 1]
              ELSE HexDigits[(b \div 16) + 1] \o HexDigits[(b % 16) + 1]

IsHexDigit(c) == \E i \in 1..16 : HexDigits[i] = c

HexVal(c) == (CHOOSE i \in 1..16 : HexDigits[i] = c) - 1

\* hex.DecodeString: fails on an odd length or on a character that is no digit.
DecodeFails(s) ==
    Len(s) % 2 = 1 \/ \E i \in 1..Len(s) : ~IsHexDigit(SubSeq(s, i, i))

DecodeString(s) ==
    [i \in 1..(Len(s) \div 2) |->
        16 * HexVal(SubSeq(s, 2 * i - 1, 2 * i - 1)) + HexVal(SubSeq(s, 2 * i, 2 * i))]

\* v >> (8*k) on a two's complement integer (\div rounds down).
RECURSIVE ShiftRight8(_, _)
ShiftRight8(v, k) == IF k = 0 THEN v ELSE ShiftRight8(v \div 256, k - 1)

\* binary.Write(buf, binary.LittleEndian, v) for an int64 v: the 8 bytes of v.
LittleEndianInt64(v) == [i \in 1..8 |-> ShiftRight8(v, i - 1) % 256]

(***************************************************************************)
(* station.go: the constants, the device table and the station.            *)
(***************************************************************************)
SUB_HEADER              == "5000"
HEALTH_CHECK_COMMAND    == "1906"
HEALTH_CHECK_SUBCOMMAND == "0000"
READ_COMMAND            == "0104"
READ_SUB_COMMAND        == "0000"
BIT_READ_SUB_COMMAND    == "0100"
WRITE_COMMAND           == "0114"
WRITE_SUB_COMMAND       == "0000"
BIT_WRITE_SUB_COMMAND   == "0100"
MONITORING_TIMER        == "1000"

RegisteredDevices == {"X", "Y", "M", "L", "F", "V", "B", "W", "D"}

\* DeviceCodes[deviceName]: a Go map lookup, the empty string for a missing key.
DeviceCodes(deviceName) ==
    CASE deviceName = "X" -> "9C"
      [] deviceName = "Y" -> "9D"
      [] deviceName = "M" -> "90"
      [] deviceName = "L" -> "92"
      [] deviceName = "F" -> "93"
      [] deviceName = "V" -> "94"
      [] deviceName = "B" -> "A0"
      [] deviceName = "W" -> "B4"
      [] deviceName = "D" -> "A8"
      [] OTHER -> ""

NewStation(networkNum, pcNum, unitIONum, unitStationNum) ==
    [networkNum |-> networkNum, pcNum |-> pcNum,
     unitIONum |-> unitIONum, unitStationNum |-> unitStationNum]

NewLocalStation ==
    [networkNum |-> "00", pcNum |-> "FF",
     unitIONum |-> "FF03", unitStationNum |-> "00"]

\* SUB_HEADER + h.networkNum + h.pcNum + h.unitIONum + h.unitStationNum
StationHeader(h) ==
    SUB_HEADER \o h.networkNum \o h.pcNum \o h.unitIONum \o h.unitStationNum

\* dataLen: the first two bytes of int64(requestCharLen), as hex text.
DataLenHex(requestCharLen) ==
    HexOfBytes(SubSeq(LittleEndianInt64(requestCharLen), 1, 2))

BuildHealthCheckRequest(h) ==
    LET returnDataNum  == "0500"
        returnData     == "4142434445"
        requestStr     == HEALTH_CHECK_COMMAND \o HEALTH_CHECK_SUBCOMMAND
                              \o returnDataNum \o returnData
        requestCharLen == Len(MONITORING_TIMER \o requestStr) \div 2
    IN  StationHeader(h) \o DataLenHex(requestCharLen)
            \o MONITORING_TIMER \o requestStr

\* buildReadRequestHelper with the 4-byte offset of MELSEC iQ-R.
Read4ByteOffset(h, deviceName, offset, numPoints, subCommand) ==
    LET deviceCode     == DeviceCodes(deviceName)
        offsetHex      == HexOfBytes(SubSeq(LittleEndianInt64(offset), 1, 4))
        points         == HexOfBytes(SubSeq(LittleEndianInt64(numPoints), 1, 2))
        requestCharLen == Len(MONITORING_TIMER \o READ_COMMAND \o READ_SUB_COMMAND
                                  \o deviceCode \o offsetHex \o points) \div 2
    IN  StationHeader(h) \o DataLenHex(requestCharLen) \o MONITORING_TIMER
            \o READ_COMMAND \o subCommand \o offsetHex \o deviceCode \o points

buildReadRequestHelper(h, deviceName, offset, numPoints, subCommand) ==
    LET deviceCode     == DeviceCodes(deviceName)
        offsetHex      == HexOfBytes(SubSeq(LittleEndianInt64(offset), 1, 3))
        points         == HexOfBytes(SubSeq(LittleEndianInt64(numPoints), 1, 2))
        requestCharLen == Len(MONITORING_TIMER \o READ_COMMAND \o READ_SUB_COMMAND
                                  \o deviceCode \o offsetHex \o points) \div 2
    IN  StationHeader(h) \o DataLenHex(requestCharLen) \o MONITORING_TIMER
            \o READ_COMMAND \o subCommand \o offsetHex \o deviceCode \o points

BuildReadRequest(h, deviceName, offset, numPoints) ==
    buildReadRequestHelper(h, deviceName, offset, numPoints, READ_SUB_COMMAND)

BuildBitReadRequest(h, deviceName, offset, numPoints) ==
    buildReadRequestHelper(h, deviceName, offset, numPoints, BIT_READ_SUB_COMMAND)

\* writeBuff.Bytes()[0:2*numPoints] panics when 2*numPoints is negative or
\* beyond the capacity bufCap of the buffer's backing array.
WriteSlicePanics(numPoints, bufCap) ==
    2 * numPoints < 0 \/ 2 * numPoints > bufCap

\* writeBuff.Bytes()[0:2*numPoints]: the bytes written, then (within the
\* capacity) the zero bytes the backing array holds behind them.
WriteSlice(writeData, numPoints) ==
    [i \in 1..(2 * numPoints) |->
        IF i \in DOMAIN writeData THEN writeData[i] ELSE 0]

\* buildWriteRequestHelper without the cut of writeData to 2*numPoints bytes.
WriteWholeData(h, deviceName, offset, numPoints, writeData, subCommand) ==
    LET deviceCode     == DeviceCodes(deviceName)
        offsetHex      == HexOfBytes(SubSeq(LittleEndianInt64(offset), 1, 3))
        writeHex       == HexOfBytes(writeData)
        points         == HexOfBytes(SubSeq(LittleEndianInt64(numPoints), 1, 2))
        requestCharLen == Len(MONITORING_TIMER \o WRITE_COMMAND \o WRITE_SUB_COMMAND
                                  \o deviceCode \o offsetHex \o points \o writeHex) \div 2
    IN  StationHeader(h) \o DataLenHex(requestCharLen) \o MONITORING_TIMER
            \o WRITE_COMMAND \o subCommand \o offsetHex \o deviceCode \o points
            \o writeHex

buildWriteRequestHelper(h, deviceName, offset, numPoints, writeData, subCommand) ==
    LET deviceCode     == DeviceCodes(deviceName)
        offsetHex      == HexOfBytes(SubSeq(LittleEndianInt64(offset), 1, 3))
        writeHex       == HexOfBytes(WriteSlice(writeData, numPoints))
        points         == HexOfBytes(SubSeq(LittleEndianInt64(numPoints), 1, 2))
        requestCharLen == Len(MONITORING_TIMER \o WRITE_COMMAND \o WRITE_SUB_COMMAND
                                  \o deviceCode \o offsetHex \o points \o writeHex) \div 2
    IN  StationHeader(h) \o DataLenHex(requestCharLen) \o MONITORING_TIMER
            \o WRITE_COMMAND \o subCommand \o offsetHex \o deviceCode \o points
            \o writeHex

BuildWriteRequest(h, deviceName, offset, numPoints, writeData) ==
    buildWriteRequestHelper(h, deviceName, offset, numPoints, writeData,
                            WRITE_SUB_COMMAND)

BuildBitWriteRequest(h, deviceName, offset, numPoints, writeData) ==
    buildWriteRequestHelper(h, deviceName, offset, numPoints, writeData,
                            BIT_WRITE_SUB_COMMAND)

(***************************************************************************)
(* response_parser.go: Response and the two parsers.  A *Response is a     *)
(* sequence: empty for nil, else holding the one Response pointed to.      *)
(***************************************************************************)
Response(subHeader, network, pc, unitIO, unitStation, dataLen, endCode, payload) ==
    [SubHeader |-> subHeader, NetworkNum |-> network, PCNum |-> pc,
     UnitIONum |-> unitIO, UnitStationNum |-> unitStation,
     DataLen |-> dataLen, EndCode |-> endCode, Payload |-> payload,
     ErrInfo |-> <<>>]

Returned(response, err, code) == [response |-> response, err |-> err, code |-> code]

\* parser_3E_Process with the payload taken behind the 22 bytes it requires.
Process3E_PayloadAfter22(r) ==
    IF Len(r) < 22
    THEN Returned(<<>>, "length", "")
    ELSE Returned(<<Response(HexOfBytes(SubSeq(r, 1, 2)), HexOfBytes(SubSeq(r, 3, 3)),
                             HexOfBytes(SubSeq(r, 4, 4)), HexOfBytes(SubSeq(r, 5, 6)),
                             HexOfBytes(SubSeq(r, 7, 7)), HexOfBytes(SubSeq(r, 8, 9)),
                             HexOfBytes(SubSeq(r, 10, 11)), SubSeq(r, 23, Len(r)))>>,
                  "nil", "")

\* (p *parser_3E) Process
parser_3E_Process(r) ==
    IF Len(r) < 22
    THEN Returned(<<>>, "length", "")
    ELSE Returned(<<Response(HexOfBytes(SubSeq(r, 1, 2)), HexOfBytes(SubSeq(r, 3, 3)),
                             HexOfBytes(SubSeq(r, 4, 4)), HexOfBytes(SubSeq(r, 5, 6)),
                             HexOfBytes(SubSeq(r, 7, 7)), HexOfBytes(SubSeq(r, 8, 9)),
                             HexOfBytes(SubSeq(r, 10, 11)), SubSeq(r, 12, Len(r)))>>,
                  "nil", "")

\* (p *parser_1E) Process
parser_1E_Process(r) ==
    IF Len(r) < 2
    THEN Returned(<<>>, "length", "")
    ELSE IF Len(r) = 2
         THEN Returned(<<>>, "plc_error", HexOfBytes(SubSeq(r, 1, 2)))
         ELSE Returned(<<Response(HexOfByte(r[1]), "", "", "", "", "",
                                  HexOfByte(r[2]), SubSeq(r, 3, Len(r)))>>,
                       "nil", "")

(***************************************************************************)
(* The builder calls under study.  StationInit draws one call from bounded *)
(* sets; the action of the called builder applies it.                      *)
(***************************************************************************)
RECURSIVE SeqsUpTo(_, _)
SeqsUpTo(S, n) ==
    IF n = 0 THEN {<<>>}
    ELSE LET shorter == SeqsUpTo(S, n - 1)
         IN  shorter \cup {Append(s, x) : s \in shorter, x \in S}

Stations ==
    { NewLocalStation,
      NewStation("01", "02", "0304", "05"),
      NewStation("", "F", "FF03", "00") }

DeviceNames  == RegisteredDevices \cup {"Z"}
Offsets      == {0, 100, 16777215, 16777316, -1}
ReadPoints   == {0, 1, 2, 65535, 65537, -1}
WriteDevices == {"D", "W", "Z"}
WriteOffsets == {0, 100, 16777316}
WritePoints  == {-1, 0, 1, 2}
DataBytes    == {18, 171}
WriteDatas   == SeqsUpTo(DataBytes, MaxDataLen)

\* The largest point counts: the frame body reaches 65535 and 65536 bytes.
LargePoints  == {32761, 32762}

NoData == <<>>

\* A call's writeData is given by its first bytes and by the number of bytes
\* that follow them, byte i of the buffer being 7*i mod 256.
BuilderCall(op, stn, deviceName, offset, numPoints, writeData, fill) ==
    [op |-> op, stn |-> stn, deviceName |-> deviceName, offset |-> offset,
     numPoints |-> numPoints, writeData |-> writeData, fill |-> fill]

\* The []byte the call passes as writeData.
WriteDataOf(c) ==
    [i \in 1..(Len(c.writeData) + c.fill) |->
        IF i <= Len(c.writeData) THEN c.writeData[i] ELSE (i * 7) % 256]

WriteDataLen(c) == Len(c.writeData) + c.fill

HealthCalls ==
    {BuilderCall("BuildHealthCheckRequest", s, "", 0, 0, NoData, 0) : s \in Stations}

ReadCalls ==
    {BuilderCall(op, s, d, o, n, NoData, 0) :
        op \in {"BuildReadRequest", "BuildBitReadRequest"},
        s \in Stations, d \in DeviceNames, o \in Offsets, n \in ReadPoints}

WriteCalls ==
    {BuilderCall(op, s, d, o, n, w, 0) :
        op \in {"BuildWriteRequest", "BuildBitWriteRequest"},
        s \in Stations, d \in WriteDevices, o \in WriteOffsets,
        n \in WritePoints, w \in WriteDatas}

LargeWriteCalls ==
    {BuilderCall("BuildWriteRequest", NewLocalStation, "D", 0, n, NoData, 2 * n) :
        n \in LargePoints}

BuilderCalls == HealthCalls \cup ReadCalls \cup WriteCalls \cup LargeWriteCalls

NoResult == [kind |-> "none", frame |-> ""]
Frame(f) == [kind |-> "frame", frame |-> f]
Panic    == [kind |-> "panic", frame |-> ""]

NotParsed  == [parser |-> "none", returned |-> Returned(<<>>, "nil", "")]
NoClient   == [live |-> FALSE, stn |-> NewLocalStation]
NoCall     == [op |-> "none", err |-> "nil", writes |-> 0, reads |-> 0,
               resp |-> <<>>]

\* The callers of one client: none of them has called anything, nothing has
\* been written to the connection or read from it.
Callers    == {1, 2}
IdleCaller == [pc |-> "idle", id |-> 0, op |-> "none", requestStr |-> "",
               bufLen |-> 0, writes |-> 0, reads |-> 0, err |-> "nil",
               resp |-> <<>>]
NoCallers  == [k \in Callers |-> IdleCaller]
NoWire     == [up |-> FALSE, sent |-> <<>>, recv |-> <<>>]
NoLog      == [calls |-> 0, written |-> <<>>, reads |-> <<>>]

\* The capacities the backing array of writeBuff can have: that of the bytes
\* written, or one with room for the 2*numPoints bytes the slice asks for.
BufferCaps(dataLen, numPoints) ==
    {dataLen} \cup {c \in {2 * numPoints} : c > dataLen}

StationInit ==
    /\ call \in BuilderCalls
    /\ result = NoResult
    /\ resp = <<>> /\ parsed = NotParsed
    /\ client = NoClient /\ conn = 0 /\ sockets = <<>> /\ last = NoCall
    /\ callers = NoCallers /\ wire = NoWire /\ log = NoLog

DoBuildHealthCheckRequest ==
    /\ call.op = "BuildHealthCheckRequest" /\ result = NoResult
    /\ result' = Frame(BuildHealthCheckRequest(call.stn))
    /\ UNCHANGED <<call, parserVars, clientVars, callerVars>>

DoBuildReadRequest ==
    /\ call.op = "BuildReadRequest" /\ result = NoResult
    /\ result' = Frame(BuildReadRequest(call.stn, call.deviceName, call.offset,
                                        call.numPoints))
    /\ UNCHANGED <<call, parserVars, clientVars, callerVars>>

DoBuildBitReadRequest ==
    /\ call.op = "BuildBitReadRequest" /\ result = NoResult
    /\ result' = Frame(BuildBitReadRequest(call.stn, call.deviceName, call.offset,
                                           call.numPoints))
    /\ UNCHANGED <<call, parserVars, clientVars, callerVars>>

DoBuildWriteRequest ==
    /\ call.op = "BuildWriteRequest" /\ result = NoResult
    /\ \E bufCap \in BufferCaps(WriteDataLen(call), call.numPoints) :
          result' = IF WriteSlicePanics(call.numPoints, bufCap)
                    THEN Panic
                    ELSE Frame(BuildWriteRequest(call.stn, call.deviceName,
                                   call.offset, call.numPoints, WriteDataOf(call)))
    /\ UNCHANGED <<call, parserVars, clientVars, callerVars>>

DoBuildBitWriteRequest ==
    /\ call.op = "BuildBitWriteRequest" /\ result = NoResult
    /\ \E bufCap \in BufferCaps(WriteDataLen(call), call.numPoints) :
          result' = IF WriteSlicePanics(call.numPoints, bufCap)
                    THEN Panic
                    ELSE Frame(BuildBitWriteRequest(call.stn, call.deviceName,
                                   call.offset, call.numPoints, WriteDataOf(call)))
    /\ UNCHANGED <<call, parserVars, clientVars, callerVars>>

StationNext ==
    \/ DoBuildHealthCheckRequest
    \/ DoBuildReadRequest
    \/ DoBuildBitReadRequest
    \/ DoBuildWriteRequest
    \/ DoBuildBitWriteRequest

StationSpec == StationInit /\ [][StationNext]_vars

(***************************************************************************)
(* The frame encoder's claims, checked under StationSpec.                  *)
(***************************************************************************)
IsReadCall  == call.op \in {"BuildReadRequest", "BuildBitReadRequest"}
IsWriteCall == call.op \in {"BuildWriteRequest", "BuildBitWriteRequest"}
Built       == result.kind = "frame"

\* The number of hex characters in front of the dataLength field.
HeaderChars == Len(StationHeader(call.stn))

\* frame[a:b] in bytes counted from the end of the station header.
Field(a, b) == SubSeq(result.frame, HeaderChars + 2 * a + 1, HeaderChars + 2 * b)

\* A 2-byte field of hex text read as a little-endian integer.
LittleEndianValue(hex) == DecodeString(hex)[1] + 256 * DecodeString(hex)[2]

\* The bytes of the frame from the monitoring timer through its end.
BodyBytes == (Len(result.frame) - HeaderChars - 4) \div 2

\* The station's four fields have the widths of the 3E frame layout.
LayoutStation(h) ==
    /\ Len(h.networkNum) = 2 /\ Len(h.pcNum) = 2
    /\ Len(h.unitIONum) = 4 /\ Len(h.unitStationNum) = 2

\* C1: in every frame built, the dataLength field read as a little-endian
\* integer equals the number of bytes from the monitoring timer to the end.
C1_DataLengthIsBodyLength ==
    (Built /\ (IsWriteCall => WriteDataLen(call) >= 2 * call.numPoints))
        => LittleEndianValue(Field(0, 2)) = BodyBytes

\* C2: in every read and write frame the offset is 3 bytes, offset mod 2^24
\* little-endian, then comes the device code of the device table, then the
\* point count as 2 bytes, numPoints mod 2^16 little-endian.
C2_OffsetDeviceCodePoints ==
    (Built /\ (IsReadCall \/ IsWriteCall)) =>
        LET o == call.offset % 16777216
            n == call.numPoints % 65536
        IN  /\ DecodeString(Field(8, 11)) = <<o % 256, (o \div 256) % 256, o \div 65536>>
            /\ \E d \in RegisteredDevices :
                  d = call.deviceName /\ Field(11, 12) = DeviceCodes(d)
            /\ DecodeString(Field(12, 14)) = <<n % 256, n \div 256>>

\* C3: a write frame ends with the hex text of the first 2*numPoints bytes of
\* writeData, and every writeData with the same first 2*numPoints bytes gives
\* the same frame.
C3_WritePayloadTruncated ==
    (Built /\ IsWriteCall /\ WriteDataLen(call) >= 2 * call.numPoints) =>
        LET n      == 2 * call.numPoints
            data   == WriteDataOf(call)
            f      == result.frame
            sub    == IF call.op = "BuildWriteRequest"
                      THEN WRITE_SUB_COMMAND ELSE BIT_WRITE_SUB_COMMAND
        IN  /\ SubSeq(f, Len(f) - 2 * n + 1, Len(f))
                  = HexOfBytes(SubSeq(data, 1, n))
            /\ Len(f) - 2 * n
                  = HeaderChars + 26 + Len(DeviceCodes(call.deviceName))
            /\ \A other \in WriteDatas :
                  (Len(other) >= n /\ call.fill = 0
                      /\ SubSeq(other, 1, n) = SubSeq(call.writeData, 1, n))
                      => buildWriteRequestHelper(call.stn, call.deviceName, call.offset,
                                                 call.numPoints, other, sub) = f

\* A write whose writeData is longer than 2*numPoints >= 2 bytes was built.
C3_Witness ==
    /\ Built /\ call.op = "BuildWriteRequest"
    /\ call.numPoints = 1 /\ Len(call.writeData) = 4

\* C4 as stated: the frame BuildReadRequest returns decodes to 25 bytes.
C4_ReadFrameIs25Bytes ==
    (Built /\ call.op = "BuildReadRequest" /\ LayoutStation(call.stn)
           /\ call.deviceName \in RegisteredDevices)
        => (~DecodeFails(result.frame) /\ Len(DecodeString(result.frame)) = 25)

\* C4 amended: for every registered device letter, offset and point count the
\* frame BuildReadRequest returns decodes to 7 (header) + 2 + 2 + 2 + 2 + 3 +
\* 1 + 2 = 21 bytes.
C4_ReadFrameIs21Bytes ==
    (Built /\ call.op = "BuildReadRequest" /\ LayoutStation(call.stn)
           /\ call.deviceName \in RegisteredDevices)
        => (~DecodeFails(result.frame) /\ Len(DecodeString(result.frame)) = 21)

\* BuildReadRequest was called for a registered device with an offset beyond
\* 24 bits and a point count beyond 16 bits.
C4_Witness ==
    /\ Built /\ call.op = "BuildReadRequest" /\ call.stn = NewLocalStation
    /\ call.deviceName = "D" /\ call.offset = 16777316 /\ call.numPoints = 65537

\* C5: a read or write builder called with an unregistered device letter never
\* yields a frame.
C5_UnknownDeviceYieldsNoFrame ==
    ((IsReadCall \/ IsWriteCall) /\ call.deviceName \notin RegisteredDevices)
        => ~Built

(***************************************************************************)
(* The response buffers under study.  ParserInit draws one buffer; the     *)
(* action of a parser applies Process to it.                               *)
(***************************************************************************)
ByteSamples == {0, 10, 18, 52, 90, 255}

Zeros(n) == [i \in 1..n |-> 0]
Ramp(n)  == [i \in 1..n |-> i]

\* The buffer b with its byte at index pos-1 set to val.
WithByte(b, pos, val) == [i \in 1..Len(b) |-> IF i = pos THEN val ELSE b[i]]

PatternResponses ==
    {WithByte(b, pos, val) :
        b \in {Zeros(n) : n \in 1..MaxRespLen} \cup {Ramp(n) : n \in 1..MaxRespLen},
        pos \in 1..MaxRespLen, val \in ByteSamples}

ParserResponses == SeqsUpTo(ByteSamples, MaxShortLen) \cup PatternResponses

ParserInit ==
    /\ resp \in ParserResponses
    /\ parsed = NotParsed
    /\ call = BuilderCall("none", NewLocalStation, "", 0, 0, NoData, 0)
    /\ result = NoResult
    /\ client = NoClient /\ conn = 0 /\ sockets = <<>> /\ last = NoCall
    /\ callers = NoCallers /\ wire = NoWire /\ log = NoLog

Process3E ==
    /\ parsed = NotParsed
    /\ parsed' = [parser |-> "3E", returned |-> parser_3E_Process(resp)]
    /\ UNCHANGED <<resp, stationVars, clientVars, callerVars>>

Process1E ==
    /\ parsed = NotParsed
    /\ parsed' = [parser |-> "1E", returned |-> parser_1E_Process(resp)]
    /\ UNCHANGED <<resp, stationVars, clientVars, callerVars>>

ParserNext == Process3E \/ Process1E

ParserSpec == ParserInit /\ [][ParserNext]_vars

(***************************************************************************)
(* The parsers' claims, checked under ParserSpec.                          *)
(***************************************************************************)
Parsed3E == parsed.parser = "3E"
Parsed1E == parsed.parser = "1E"
NoError  == parsed.returned.err = "nil" /\ Len(parsed.returned.response) = 1

C7_OneEFieldsAreTwoDigits ==
    (Parsed1E /\ Len(resp) >= 3) =>
        /\ NoError
        /\ parsed.returned.response[1].SubHeader = HexOfBytes(<<resp[1]>>)
        /\ parsed.returned.response[1].EndCode = HexOfBytes(<<resp[2]>>)
        /\ parsed.returned.response[1].Payload = SubSeq(resp, 3, Len(resp))

(***************************************************************************)
(* The session client (client3E).  A socket is "open" from the dial that   *)
(* made it until the client calls Close on it; sockets[i] is the i-th      *)
(* socket dialed and conn the index of the one the client holds.           *)
(***************************************************************************)
Min(a, b) == IF a < b THEN a ELSE b

\* dialer.Dial succeeded: a new open socket.
Dialed(ss) == Append(ss, "open")

\* c.conn.Close()
Closed(ss, c) == [i \in 1..Len(ss) |-> IF i = c THEN "closed" ELSE ss[i]]

Returns(op, err, writes, reads, r) ==
    [op |-> op, err |-> err, writes |-> writes, reads |-> reads, resp |-> r]

\* HealthCheckVerdict without the comparison of resp[11:13] with "0500".
HealthCheckSkipsHeader(r) ==
    IF Len(r) # 18 THEN "length"
    ELSE IF "4142434445" # HexOfBytes(SubSeq(r, 14, 18)) THEN "body"
    ELSE "nil"

\* HealthCheck's verdict on the readLen bytes read.
HealthCheckVerdict(r) ==
    IF Len(r) # 18 THEN "length"
    ELSE IF "0500" # HexOfBytes(SubSeq(r, 12, 13)) THEN "header"
    ELSE IF "4142434445" # HexOfBytes(SubSeq(r, 14, 18)) THEN "body"
    ELSE "nil"

\* What a request/response exchange returns: hex.DecodeString, conn.Write,
\* then conn.Read into a buffer of bufLen bytes.  A write on a socket the
\* client has closed fails; otherwise the network net decides.
Exchange(op, requestStr, bufLen, net) ==
    IF DecodeFails(requestStr) THEN Returns(op, "encoding", 0, 0, <<>>)
    ELSE IF sockets[conn] = "closed" \/ ~net.writeOK
         THEN Returns(op, "write", 1, 0, <<>>)
    ELSE IF ~net.readOK THEN Returns(op, "read", 1, 1, <<>>)
    ELSE Returns(op, "nil", 1, 1, SubSeq(net.wire, 1, Min(Len(net.wire), bufLen)))

\* What the network does to one exchange: the write fails, or the read fails,
\* or the read returns the bytes of one of the answers wires.
NetworkOutcomes(wires) ==
    { [writeOK |-> FALSE, readOK |-> FALSE, wire |-> <<>>],
      [writeOK |-> TRUE, readOK |-> FALSE, wire |-> <<>>] }
        \cup {[writeOK |-> TRUE, readOK |-> TRUE, wire |-> w] : w \in wires}

\* The answers of the PLC to a health check: the echo behind either of two
\* 11-byte headers, every change of one byte of it, and other lengths.
EchoBytes      == <<5, 0, 65, 66, 67, 68, 69>>
ResponseHeaders ==
    { <<208, 0, 0, 255, 255, 3, 0, 9, 0, 0, 0>>,
      <<208, 0, 1, 2, 3, 4, 5, 9, 0, 0, 0>> }
GoodResponses  == {h \o EchoBytes : h \in ResponseHeaders}
ChangedBytes   == {0, 66}
OneByteChanged ==
    {WithByte(g, pos, val) : g \in GoodResponses, pos \in 1..18, val \in ChangedBytes}
HealthResponses ==
    GoodResponses \cup OneByteChanged
        \cup {SubSeq(g, 1, n) : g \in GoodResponses, n \in {0, 17}}
        \cup {g \o Zeros(n) : g \in GoodResponses, n \in {1, 13}}

\* The arguments of Read, BitRead, Write and BitWrite, and the PLC's answers.
ClientStations  ==
    {NewLocalStation, NewStation("", "F", "FF03", "00")}
ClientDevices   == {"D"}
ClientPoints    == {1, 2}
ClientWriteData == <<18, 52, 86, 120>>
ExchangeResponses == {Zeros(n) : n \in {0, 11, 22, 24, 26}}

ClientInit ==
    /\ client = NoClient /\ conn = 0 /\ sockets = <<>> /\ last = NoCall
    /\ callers = NoCallers /\ wire = NoWire /\ log = NoLog
    /\ call = BuilderCall("none", NewLocalStation, "", 0, 0, NoData, 0)
    /\ result = NoResult
    /\ resp = <<>> /\ parsed = NotParsed

\* New3EClient: the client exists only if its Connect succeeds.
New3EClient ==
    /\ ~client.live
    /\ \E stn \in ClientStations, dialOK \in BOOLEAN :
          IF dialOK
          THEN /\ Len(sockets) < MaxDials
               /\ sockets' = Dialed(sockets)
               /\ conn' = Len(sockets) + 1
               /\ client' = [live |-> TRUE, stn |-> stn]
               /\ last' = Returns("New3EClient", "nil", 0, 0, <<>>)
          ELSE /\ last' = Returns("New3EClient", "dial", 0, 0, <<>>)
               /\ UNCHANGED <<client, conn, sockets>>
    /\ UNCHANGED <<stationVars, parserVars, callerVars>>

Connect ==
    /\ client.live
    /\ \E dialOK \in BOOLEAN :
          IF dialOK
          THEN /\ Len(sockets) < MaxDials
               /\ sockets' = Dialed(sockets)
               /\ conn' = Len(sockets) + 1
               /\ last' = Returns("Connect", "nil", 0, 0, <<>>)
          ELSE /\ last' = Returns("Connect", "dial", 0, 0, <<>>)
               /\ UNCHANGED <<conn, sockets>>
    /\ UNCHANGED <<client, stationVars, parserVars, callerVars>>

ShutDown ==
    /\ client.live
    /\ sockets' = Closed(sockets, conn)
    /\ last' = Returns("ShutDown", "nil", 0, 0, <<>>)
    /\ UNCHANGED <<client, conn, stationVars, parserVars, callerVars>>

\* Reconnect: ShutDown, a second's sleep, Connect.
Reconnect ==
    /\ client.live
    /\ \E dialOK \in BOOLEAN :
          IF dialOK
          THEN /\ Len(sockets) < MaxDials
               /\ sockets' = Dialed(Closed(sockets, conn))
               /\ conn' = Len(sockets) + 1
               /\ last' = Returns("Reconnect", "nil", 0, 0, <<>>)
          ELSE /\ sockets' = Closed(sockets, conn)
               /\ last' = Returns("Reconnect", "dial", 0, 0, <<>>)
               /\ UNCHANGED conn
    /\ UNCHANGED <<client, stationVars, parserVars, callerVars>>

HealthCheck ==
    /\ client.live
    /\ \E net \in NetworkOutcomes(HealthResponses) :
          LET read == Exchange("HealthCheck", BuildHealthCheckRequest(client.stn),
                               30, net)
          IN  last' = IF read.err # "nil" THEN read
                      ELSE [read EXCEPT !.err = HealthCheckVerdict(read.resp)]
    /\ UNCHANGED <<client, conn, sockets, stationVars, parserVars, callerVars>>

\* readHelper reads into a buffer of 22+2*numPoints bytes.
Read ==
    /\ client.live
    /\ \E d \in ClientDevices, n \in ClientPoints,
          net \in NetworkOutcomes(ExchangeResponses) :
          last' = Exchange("Read", BuildReadRequest(client.stn, d, 100, n),
                           22 + 2 * n, net)
    /\ UNCHANGED <<client, conn, sockets, stationVars, parserVars, callerVars>>

BitRead ==
    /\ client.live
    /\ \E d \in ClientDevices, n \in ClientPoints,
          net \in NetworkOutcomes(ExchangeResponses) :
          last' = Exchange("BitRead", BuildBitReadRequest(client.stn, d, 100, n),
                           22 + 2 * n, net)
    /\ UNCHANGED <<client, conn, sockets, stationVars, parserVars, callerVars>>

\* writeHelper reads into a buffer of 22 bytes.
Write ==
    /\ client.live
    /\ \E d \in ClientDevices, n \in ClientPoints,
          net \in NetworkOutcomes(ExchangeResponses) :
          last' = Exchange("Write",
                           BuildWriteRequest(client.stn, d, 100, n, ClientWriteData),
                           22, net)
    /\ UNCHANGED <<client, conn, sockets, stationVars, parserVars, callerVars>>

BitWrite ==
    /\ client.live
    /\ \E d \in ClientDevices, n \in ClientPoints,
          net \in NetworkOutcomes(ExchangeResponses) :
          last' = Exchange("BitWrite",
                           BuildBitWriteRequest(client.stn, d, 100, n, ClientWriteData),
                           22, net)
    /\ UNCHANGED <<client, conn, sockets, stationVars, parserVars, callerVars>>

Next ==
    \/ New3EClient
    \/ Connect
    \/ Reconnect
    \/ ShutDown
    \/ HealthCheck
    \/ Read
    \/ BitRead
    \/ Write
    \/ BitWrite

Spec == ClientInit /\ [][Next]_vars

(***************************************************************************)
(* The session client's claims, checked under Spec.                        *)
(***************************************************************************)
ExchangeOps == {"Read", "BitRead", "Write", "BitWrite", "HealthCheck"}

\* The last call was a HealthCheck whose write and read succeeded.
HealthChecked ==
    last.op = "HealthCheck" /\ last.reads = 1 /\ last.err # "read"

LivenessFailure == last.err \in {"length", "header", "body"}

\* r is 18 bytes with bytes[11:13] = 05 00 and bytes[13:18] = "ABCDE".
IsEcho(r) == Len(r) = 18 /\ SubSeq(r, 12, 18) = EchoBytes

\* r and g are as long and differ in byte pos-1 and in no other byte.
DiffersOnlyAt(r, g, pos) ==
    /\ Len(r) = Len(g)
    /\ r[pos] # g[pos]
    /\ \A i \in 1..Len(g) : i # pos => r[i] = g[i]

\* C8 as stated: HealthCheck succeeds on the echo, and fails on every
\* response that differs from an echo in any single byte and on every
\* response that is not 18 bytes long.
C8_AnyChangedByteFails ==
    HealthChecked =>
        /\ IsEcho(last.resp) => last.err = "nil"
        /\ (\E g \in GoodResponses, pos \in 1..18 : DiffersOnlyAt(last.resp, g, pos))
              => LivenessFailure
        /\ Len(last.resp) # 18 => LivenessFailure

\* C8 amended: HealthCheck succeeds exactly on the 18-byte responses that hold
\* the echo; it fails on every response that differs from an echo in a single
\* byte among bytes 11..17 and on every response that is not 18 bytes long,
\* and it does not look at bytes 0..10.
C8_ChangedEchoByteFails ==
    HealthChecked =>
        /\ IsEcho(last.resp) <=> last.err = "nil"
        /\ last.err # "nil" => LivenessFailure
        /\ (\E g \in GoodResponses, pos \in 12..18 : DiffersOnlyAt(last.resp, g, pos))
              => LivenessFailure
        /\ (\E g \in GoodResponses, pos \in 1..11 : DiffersOnlyAt(last.resp, g, pos))
              => last.err = "nil"
        /\ Len(last.resp) # 18 => LivenessFailure

\* A HealthCheck has read an echo whose last byte alone was changed.
C8_Witness ==
    /\ HealthChecked /\ last.err = "body"
    /\ \E g \in GoodResponses : DiffersOnlyAt(last.resp, g, 18)

\* C9: after a Read, BitRead, Write, BitWrite or HealthCheck that returned an
\* error, the connection is closed if the socket write or read failed and
\* open if the failure was one of framing or protocol.
C9_TransportFailureClosesConnection ==
    (last.op \in ExchangeOps /\ last.err # "nil") =>
        /\ last.err \in {"write", "read"} => sockets[conn] = "closed"
        /\ LivenessFailure => sockets[conn] = "open"

\* C10: every socket the client ever dialed, other than the one it holds, has
\* been closed, so at most one socket is open.
C10_AtMostOneOpenSocket ==
    /\ \A i \in 1..Len(sockets) : i # conn => sockets[i] = "closed"
    /\ Cardinality({i \in 1..Len(sockets) : sockets[i] = "open"}) <= 1

(***************************************************************************)
(* The session client with its callers one step at a time.  A call of      *)
(* HealthCheck, readHelper or writeHelper decodes its request, writes it   *)
(* to the socket, reads from the socket and returns; the socket write and  *)
(* the socket read are the steps at which callers interleave.  The client  *)
(* has been constructed and holds one open connection.                     *)
(***************************************************************************)
MaxCalls == 3    \* calls the callers start at most, all together

\* A public call: the request it builds and the buffer it reads into.
CallOf(op, requestStr, bufLen) ==
    [op |-> op, requestStr |-> requestStr, bufLen |-> bufLen]

CallerRequests(stn) ==
    {CallOf("HealthCheck", BuildHealthCheckRequest(stn), 30)}
        \cup {CallOf("Read", BuildReadRequest(stn, d, 100, n), 22 + 2 * n) :
                 d \in ClientDevices, n \in ClientPoints}
        \cup {CallOf("BitRead", BuildBitReadRequest(stn, d, 100, 2), 22 + 2 * 2) :
                 d \in ClientDevices}
        \cup {CallOf("Write", BuildWriteRequest(stn, d, 100, 1, ClientWriteData), 22) :
                 d \in ClientDevices}
        \cup {CallOf("BitWrite", BuildBitWriteRequest(stn, d, 100, 2, ClientWriteData), 22) :
                 d \in ClientDevices}

\* The call numbered id has been entered: requestStr is built.
Entered(id, rq) ==
    [pc |-> "decode", id |-> id, op |-> rq.op, requestStr |-> rq.requestStr,
     bufLen |-> rq.bufLen, writes |-> 0, reads |-> 0, err |-> "nil",
     resp |-> <<>>]

\* payload, err := hex.DecodeString(requestStr); if err != nil { return }
Decoded(c) ==
    IF DecodeFails(c.requestStr)
    THEN [c EXCEPT !.pc = "returned", !.err = "encoding"]
    ELSE [c EXCEPT !.pc = "write"]

\* A client that writes the request a second time when the write fails.
WroteWithRetry(c, ok) ==
    IF ok THEN [c EXCEPT !.pc = "read", !.writes = @ + 1]
    ELSE IF c.writes = 0 THEN [c EXCEPT !.writes = @ + 1]
    ELSE [c EXCEPT !.pc = "returned", !.writes = @ + 1, !.err = "write"]

\* if _, err = c.conn.Write(payload); err != nil { return }
Wrote(c, ok) ==
    IF ok THEN [c EXCEPT !.pc = "read", !.writes = @ + 1]
    ELSE [c EXCEPT !.pc = "returned", !.writes = @ + 1, !.err = "write"]

\* readLen, err := c.conn.Read(readBuff); if err != nil { return };
\* return readBuff[:readLen], and for HealthCheck its verdict on it.
ReadDone(c, ok, bytes) ==
    IF ~ok THEN [c EXCEPT !.pc = "returned", !.reads = @ + 1, !.err = "read"]
    ELSE LET r == SubSeq(bytes, 1, Min(Len(bytes), c.bufLen))
         IN  [c EXCEPT !.pc = "returned", !.reads = @ + 1, !.resp = r,
                       !.err = IF c.op = "HealthCheck"
                               THEN HealthCheckVerdict(r) ELSE "nil"]

\* A client whose read picks the response to its own request when it is there.
ReceiveOwn(recv, id) ==
    IF \E i \in 1..Len(recv) : recv[i].for = id
    THEN CHOOSE i \in 1..Len(recv) : recv[i].for = id
    ELSE 1

\* c.conn.Read takes the bytes at the head of the socket's stream, whichever
\* request they answer: the index in recv of the response a read returns.
Receive(recv, id) == 1

\* The PLC's answer to a 3E request of a 7-byte header station: the echo to a
\* loopback test, the words or bits read, or the bare header to a write.
PLCResponse(payload) ==
    LET header  == <<208, 0, 0, 255, 255, 3, 0>>
        command == HexOfBytes(SubSeq(payload, 12, 13))
        bits    == HexOfBytes(SubSeq(payload, 14, 15)) = BIT_READ_SUB_COMMAND
        points  == payload[20] + 256 * payload[21]
    IN  IF command = HEALTH_CHECK_COMMAND
        THEN header \o <<9, 0, 0, 0>> \o EchoBytes
        ELSE IF command = READ_COMMAND
        THEN header \o Zeros(4)
                 \o Zeros(IF bits THEN (points + 1) \div 2 ELSE 2 * points)
        ELSE header \o Zeros(4)

NotCalling(k) == callers[k].pc \in {"idle", "returned"}

CallerInit ==
    /\ \E stn \in ClientStations : client = [live |-> TRUE, stn |-> stn]
    /\ conn = 1 /\ sockets = Dialed(<<>>)
    /\ last = Returns("New3EClient", "nil", 0, 0, <<>>)
    /\ callers = NoCallers
    /\ wire = [up |-> TRUE, sent |-> <<>>, recv |-> <<>>]
    /\ log = NoLog
    /\ call = BuilderCall("none", NewLocalStation, "", 0, 0, NoData, 0)
    /\ result = NoResult
    /\ resp = <<>> /\ parsed = NotParsed

\* Caller k calls Read, BitRead, Write, BitWrite or HealthCheck; a caller
\* that serializes its calls waits until no other call is in progress.
Enter(k, serialized) ==
    /\ NotCalling(k)
    /\ serialized => \A j \in Callers : NotCalling(j)
    /\ log.calls < MaxCalls
    /\ \E rq \in CallerRequests(client.stn) :
          callers' = [callers EXCEPT ![k] = Entered(log.calls + 1, rq)]
    /\ log' = [log EXCEPT !.calls = @ + 1]
    /\ UNCHANGED <<wire, stationVars, parserVars, clientVars>>

CallSerialized(k)   == Enter(k, TRUE)
CallConcurrently(k) == Enter(k, FALSE)

Decode(k) ==
    /\ callers[k].pc = "decode"
    /\ callers' = [callers EXCEPT ![k] = Decoded(@)]
    /\ UNCHANGED <<wire, log, stationVars, parserVars, clientVars>>

\* c.conn.Write(payload): the request joins the stream to the PLC, or the
\* write fails on a broken connection.
SocketWrite(k) ==
    /\ callers[k].pc = "write"
    /\ callers' = [callers EXCEPT ![k] = Wrote(@, wire.up)]
    /\ IF wire.up
       THEN /\ wire' = [wire EXCEPT !.sent =
                          Append(@, [id |-> callers[k].id,
                                     payload |-> DecodeString(callers[k].requestStr)])]
            /\ log' = [log EXCEPT !.written = Append(@, callers[k].id)]
       ELSE UNCHANGED <<wire, log>>
    /\ UNCHANGED <<stationVars, parserVars, clientVars>>

\* c.conn.Read(readBuff): blocks until a response has arrived or the
\* connection is broken (no deadline is set on the socket).
SocketRead(k) ==
    /\ callers[k].pc = "read"
    /\ ~wire.up \/ wire.recv # <<>>
    /\ IF wire.up
       THEN LET i == Receive(wire.recv, callers[k].id)
                m == wire.recv[i]
            IN  /\ callers' = [callers EXCEPT ![k] = ReadDone(@, TRUE, m.bytes)]
                /\ wire' = [wire EXCEPT !.recv =
                              SubSeq(@, 1, i - 1) \o SubSeq(@, i + 1, Len(@))]
                /\ log' = [log EXCEPT !.reads =
                              Append(@, [reader |-> callers[k].id, for |-> m.for,
                                         written |-> Len(log.written)])]
       ELSE /\ callers' = [callers EXCEPT ![k] = ReadDone(@, FALSE, <<>>)]
            /\ UNCHANGED <<wire, log>>
    /\ UNCHANGED <<stationVars, parserVars, clientVars>>

\* The PLC answers the oldest request it has not answered yet.
PLCResponds ==
    /\ wire.up /\ wire.sent # <<>>
    /\ wire' = [wire EXCEPT !.sent = Tail(@),
                            !.recv = Append(@, [for |-> Head(wire.sent).id,
                                                bytes |-> PLCResponse(Head(wire.sent).payload)])]
    /\ UNCHANGED <<callers, log, stationVars, parserVars, clientVars>>

\* The connection breaks: what was under way is lost, every later socket
\* write and read on it fails.
ConnectionBreaks ==
    /\ wire.up
    /\ wire' = [up |-> FALSE, sent |-> <<>>, recv |-> <<>>]
    /\ UNCHANGED <<callers, log, stationVars, parserVars, clientVars>>

SerializedNext ==
    \/ \E k \in Callers : CallSerialized(k)
    \/ \E k \in Callers : Decode(k)
    \/ \E k \in Callers : SocketWrite(k)
    \/ \E k \in Callers : SocketRead(k)
    \/ PLCResponds
    \/ ConnectionBreaks

ConcurrentNext ==
    \/ \E k \in Callers : CallConcurrently(k)
    \/ \E k \in Callers : Decode(k)
    \/ \E k \in Callers : SocketWrite(k)
    \/ \E k \in Callers : SocketRead(k)
    \/ PLCResponds
    \/ ConnectionBreaks

SerializedSpec == CallerInit /\ [][SerializedNext]_vars
ConcurrentSpec == CallerInit /\ [][ConcurrentNext]_vars

(***************************************************************************)
(* The callers' claims.                                                    *)
(***************************************************************************)
\* The requests written to the connection whose response no read has taken.
InFlight == Len(wire.sent) + Len(wire.recv)

\* The socket write of the call numbered id succeeded.
WriteSucceeded(id) == \E i \in 1..Len(log.written) : log.written[i] = id

\* C11: under SerializedSpec, each call of Read, BitRead, Write, BitWrite or
\* HealthCheck does at most one socket write and at most one socket read, it
\* reads only after its write has succeeded and never when its write failed,
\* no request is written twice, and at most one request is in flight on the
\* connection at any time.
C11_OneWriteThenOneRead ==
    /\ \A k \in Callers :
          LET c == callers[k]
          IN  /\ c.writes <= 1 /\ c.reads <= 1
              /\ (c.pc = "read" \/ c.reads = 1) =>
                    (c.writes = 1 /\ WriteSucceeded(c.id))
              /\ c.err = "write" => (c.reads = 0 /\ ~WriteSucceeded(c.id))
    /\ \A i, j \in 1..Len(log.written) :
          log.written[i] = log.written[j] => i = j
    /\ InFlight <= 1

\* A caller's second call has written its request and read the response to
\* it, and another call's write has failed.
C11_Witness ==
    \E k, j \in Callers :
        /\ callers[k].pc = "returned" /\ callers[k].id = 2
        /\ callers[k].writes = 1 /\ callers[k].reads = 1
        /\ callers[k].err = "nil" /\ callers[k].resp # <<>>
        /\ callers[j].err = "write"

\* The j-th read that returned bytes returned another call's response.
Crossed(j) == log.reads[j].for # log.reads[j].reader

\* C12: under ConcurrentSpec, the client holds no lock between its write and
\* its read and matches no response to its request: the j-th read that
\* returns bytes returns the response to the j-th request written, whichever
\* caller reads, and the first read to return another caller's response
\* happens when both callers' requests had been written before it.
C12_ReadReturnsOldestResponse ==
    \A j \in 1..Len(log.reads) :
        /\ log.reads[j].for = log.written[j]
        /\ (Crossed(j) /\ \A i \in 1..(j - 1) : ~Crossed(i))
              => log.reads[j].written > j

\* Both callers' requests were written before either response was read, and
\* the first caller to read was returned the response to the other caller's
\* request, which is not the response to its own.
C12_Witness ==
    \E k, o \in Callers :
        /\ callers[k].pc = "returned" /\ callers[o].pc = "read"
        /\ log.written = <<callers[o].id, callers[k].id>>
        /\ log.reads = <<[reader |-> callers[k].id, for |-> callers[o].id,
                          written |-> 2]>>
        /\ callers[k].resp = PLCResponse(DecodeString(callers[o].requestStr))
        /\ callers[k].resp # PLCResponse(DecodeString(callers[k].requestStr))

====
